---- MODULE Spec2Model ----
(***************************************************************************)
(* Model of the scene importers of kite (src/src/scene_io.py): the four    *)
(* readers Matlab, Gamma, ISCE and GMTSAR, their validate and read         *)
(* methods, the directory they look into and the container each reader     *)
(* object owns.                                                            *)
(*                                                                         *)
(* Floating-point numbers are decimal numbers m * 10^e (exact arithmetic,  *)
(* no rounding), plus the two special values NaN and negative zero.        *)
(* Python values carry their type in the field t, as the code's behaviour  *)
(* depends on it (a Python float has no reshape, a str times an int is a   *)
(* repetition).                                                            *)
(***************************************************************************)
EXTENDS Integers, Sequences, FiniteSets, TLC

VARIABLES fs, container, last, ncalls

vars == <<fs, container, last, ncalls>>

(***************************************************************************)
(* Bounds of the model.                                                    *)
(***************************************************************************)
\* Calls made on the reader objects in one behaviour.
MaxCalls == 2
\* Largest nlines and width a generated Gamma parameter file declares.
MaxLines == 2
MaxWidth == 3

(***************************************************************************)
(* Floating-point values.                                                  *)
(***************************************************************************)
RECURSIVE Pow10(_)
Pow10(n) == IF n <= 0 THEN 1 ELSE 10 * Pow10(n - 1)

RECURSIVE Normalize(_, _)
Normalize(m, e) ==
    IF m = 0 THEN [t |-> "num", m |-> 0, e |-> 0]
    ELSE IF m % 10 = 0 THEN Normalize(m \div 10, e + 1)
    ELSE [t |-> "num", m |-> m, e |-> e]

\* The finite number m * 10^e.
Dec(m, e) == Normalize(m, e)
\* The finite whole number n.
Num(n) == Dec(n, 0)
Zero == Num(0)
NegZero == [t |-> "negzero"]
NaN == [t |-> "nan"]

IsNaN(a) == a.t = "nan"
\* IEEE comparison a == 0. (and a == -0.): true of both zeros, false of NaN.
EqualsZero(a) == a.t = "negzero" \/ (a.t = "num" /\ a.m = 0)

FMin(x, y) == IF x < y THEN x ELSE y

\* a + b
FAdd(a, b) ==
    IF a.t = "garbage" \/ b.t = "garbage" THEN [t |-> "garbage"]
    ELSE IF IsNaN(a) \/ IsNaN(b) THEN NaN
    ELSE IF a.t = "negzero" THEN b
    ELSE IF b.t = "negzero" THEN a
    ELSE LET e == FMin(a.e, b.e)
         IN  Dec(a.m * Pow10(a.e - e) + b.m * Pow10(b.e - e), e)

\* a * n for a whole number n (a numpy or Python float times a Python int)
FMulInt(a, n) ==
    IF IsNaN(a) THEN NaN
    ELSE IF a.t = "negzero" THEN (IF n >= 0 THEN NegZero ELSE Zero)
    ELSE IF a.m = 0 /\ n < 0 THEN NegZero
    ELSE Dec(a.m * n, a.e)

\* a * 10^k (a * 1e-2 is FScale(a, -2))
FScale(a, k) ==
    IF a.t = "num" /\ a.m # 0 THEN Dec(a.m, a.e + k) ELSE a

FNeg(a) ==
    IF IsNaN(a) THEN NaN
    ELSE IF a.t = "negzero" THEN Zero
    ELSE IF a.m = 0 THEN NegZero
    ELSE Dec(0 - a.m, a.e)

FSub(a, b) == FAdd(a, FNeg(b))

FAbs(a) ==
    IF IsNaN(a) THEN NaN
    ELSE IF a.t = "negzero" THEN Zero
    ELSE IF a.m < 0 THEN Dec(0 - a.m, a.e) ELSE a

\* a < b, false when either is NaN
FLess(a, b) ==
    IF IsNaN(a) \/ IsNaN(b) THEN FALSE
    ELSE LET x == IF a.t = "negzero" THEN Zero ELSE a
             y == IF b.t = "negzero" THEN Zero ELSE b
             e == FMin(x.e, y.e)
         IN  x.m * Pow10(x.e - e) < y.m * Pow10(y.e - e)

\* cos(a): cos(0) is 1, any other angle keeps its argument
FCos(a) ==
    IF IsNaN(a) THEN NaN
    ELSE IF EqualsZero(a) THEN Num(1)
    ELSE [t |-> "cos", of |-> a]

(***************************************************************************)
(* Python and numpy values.                                                *)
(***************************************************************************)
PyNone == [t |-> "None"]
\* a Python float
PyFloat(a) == [t |-> "float", x |-> a]
\* a Python str, a sequence of words
PyStr(s) == [t |-> "str", s |-> s]
\* a numpy scalar
NpFloat(a) == [t |-> "npfloat", x |-> a]
\* a numpy array: its shape and its elements in C order
NdArray(shape, flat) == [t |-> "ndarray", shape |-> shape, flat |-> flat]

\* The outcome of a call: a returned value or a raised exception.
\* msg is the set of names (keys, patterns, files) the error message holds.
Ok(v) == [ok |-> TRUE, val |-> v, exc |-> "", msg |-> {}]
Raise(e, m) == [ok |-> FALSE, val |-> PyNone, exc |-> e, msg |-> m]
PyBool(b) == [t |-> "bool", b |-> b]
\* self.container, the dictionary a read returns: the reader's own
SelfContainer == [t |-> "self.container"]

\* The elements of a value as numpy sees them (a scalar is one element).
Flat(a) == IF a.t = "ndarray" THEN a.flat ELSE <<a.x>>

\* num.append(a, b): both flattened, one after the other
NpAppend(a, b) ==
    LET f == Flat(a) \o Flat(b) IN NdArray(<<Len(f)>>, f)

\* a.reshape(l, w); a Python float has no such method
NpReshape(a, l, w) ==
    IF a.t \in {"float", "str", "None"}
    THEN Raise("AttributeError", {"reshape"})
    ELSE IF Len(Flat(a)) = l * w
         THEN Ok(NdArray(<<l, w>>, Flat(a)))
         ELSE Raise("ValueError", {"reshape"})

\* an elementwise operation; it keeps the shape, and the type of a numpy
\* value (a Python float becomes a numpy scalar)
NpMap(a, Op(_)) ==
    IF a.t = "ndarray"
    THEN NdArray(a.shape, [i \in 1..Len(a.flat) |-> Op(a.flat[i])])
    ELSE NpFloat(Op(a.x))

\* a[a == 0.] = nan (the same elements as a[a == -0.] = nan)
RecodeZeros(flat) ==
    [i \in 1..Len(flat) |-> IF EqualsZero(flat[i]) THEN NaN ELSE flat[i]]

Times1em2(a) == FScale(a, -2)
Plus90(a) == FAdd(a, Num(90))

\* n copies of NaN (num.empty(n) filled with nan)
NaNs(n) == NdArray(<<n>>, [i \in 1..n |-> NaN])

(***************************************************************************)
(* File names, paths and the directory.  A name is a sequence of           *)
(* characters; a path is the sequence of its components below the working  *)
(* directory: <<DName>> is the product directory, <<DName, n>> the entry n *)
(* in it.  fs maps the names of the directory's entries to what they hold. *)
(***************************************************************************)
DName == <<"d">>
DirPath == <<DName>>
FilePath(n) == <<DName, n>>

EndsWith(s, suf) ==
    /\ Len(s) >= Len(suf)
    /\ SubSeq(s, Len(s) - Len(suf) + 1, Len(s)) = suf

Contains(s, sub) ==
    \E i \in 1..(Len(s) - Len(sub) + 1) : SubSeq(s, i, i + Len(sub) - 1) = sub

\* os.path.basename and os.path.dirname
Basename(p) == IF p = <<>> THEN <<>> ELSE p[Len(p)]
Dirname(p) == IF p = <<>> THEN <<>> ELSE SubSeq(p, 1, Len(p) - 1)
Join(d, n) == Append(d, n)
\* '%s.xml' % p
WithXml(p) == Join(Dirname(p), Basename(p) \o <<".", "x", "m", "l">>)

Exists(f, p) ==
    \/ p = <<>>
    \/ p = DirPath
    \/ Len(p) = 2 /\ p[1] = DName /\ p[2] \in DOMAIN f
IsDir(f, p) ==
    \/ p = <<>>
    \/ p = DirPath
    \/ Len(p) = 2 /\ p[1] = DName /\ p[2] \in DOMAIN f /\ f[p[2]].kind = "dir"
IsFile(f, p) == Exists(f, p) /\ ~IsDir(f, p)
\* what the file at p holds (p exists and is no directory)
Content(f, p) == f[p[2]]

\* os.listdir
Listing(f, d) ==
    IF d = DirPath THEN DOMAIN f ELSE IF d = <<>> THEN {DName} ELSE {}

\* glob.glob(d + '/*' + suf): the entries ending in suf; a leading dot hides
GlobSuffix(f, d, suf) ==
    {Join(d, n) : n \in {m \in Listing(f, d) : m[1] # "." /\ EndsWith(m, suf)}}
\* glob.glob(d + '/*' + sub + '*')
GlobInfix(f, d, sub) ==
    {Join(d, n) : n \in {m \in Listing(f, d) : m[1] # "." /\ Contains(m, sub)}}

\* The orders in which a glob may list the set S.
Orders(S) ==
    {s \in [1..Cardinality(S) -> S] :
        \A i, j \in 1..Cardinality(S) : i # j => s[i] # s[j]}

\* open(p) for reading, and every numpy read of p, fail on these
Unreadable(f, p) == ~Exists(f, p) \/ IsDir(f, p)

\* num.fromfile(p, dtype) and the elements num.memmap(p, dtype) maps: a
\* file written in the other byte order, or one that is no float grid,
\* decodes to as many meaningless numbers
Garbage == [t |-> "garbage"]
Decode(c, order) ==
    IF c.kind = "bin" /\ c.order = order THEN c.data
    ELSE IF c.kind = "bin" THEN [i \in 1..Len(c.data) |-> Garbage]
    ELSE [i \in 1..c.size |-> Garbage]

(***************************************************************************)
(* The container of a reader object (SceneIO.__init__).                    *)
(***************************************************************************)
Fields == {"phi", "theta", "displacement", "llLon", "llLat", "dLat", "dLon"}
EmptyContainer == [k \in Fields |-> PyNone]
Readers == {"Matlab", "Gamma", "ISCE", "GMTSAR"}

\* What a read hands back: the outcome, the container as the call leaves
\* it, the warnings logged and the directory as the call leaves it.
Result(res, c, warn, f) == [res |-> res, container |-> c, warn |-> warn, fs |-> f]

(***************************************************************************)
(* Gamma: the parameter file.  A line the pattern matches holds a key and  *)
(* the text of its value; float(text) succeeds on a literal, and any other *)
(* text is kept as a stripped string.                                      *)
(***************************************************************************)
required == <<"corner_lat", "corner_lon", "nlines", "width",
              "post_lat", "post_lon">>

\* params[groups[0]] = float(groups[1]), or groups[1].strip()
ParseValue(text) ==
    IF text.literal THEN PyFloat(text.x) ELSE PyStr(text.words)

\* The lines of a file as the parser's loop sees them: only a text file
\* holds lines the pattern matches.
MatchedLines(c) ==
    IF c.kind = "text" THEN SelectSeq(c.lines, LAMBDA l : l.matched) ELSE <<>>

\* The dictionary the loop over the lines builds: a later line replaces an
\* earlier one with the same key.
ParamsOf(lines) ==
    LET keys == {lines[i].key : i \in 1..Len(lines)}
        lastOf(k) == CHOOSE i \in 1..Len(lines) :
                        /\ lines[i].key = k
                        /\ \A j \in (i + 1)..Len(lines) : lines[j].key # k
    IN  [k \in keys |-> ParseValue(lines[lastOf(k)].text)]

\* The message of the error raised for the missing keys: the loop over
\* required raises at the first key it does not find.
MissingKeyError(params) ==
    LET first == CHOOSE i \in 1..Len(required) :
                    /\ required[i] \notin DOMAIN params
                    /\ \A j \in 1..(i - 1) : required[j] \in DOMAIN params
    IN  Raise("ImportError", {required[first]})

parseParameterFile(f, par_file) ==
    IF Unreadable(f, par_file) THEN Raise("IOError", {"open"})
    ELSE LET params == ParamsOf(MatchedLines(Content(f, par_file)))
         IN  IF \E i \in 1..Len(required) : required[i] \notin DOMAIN params
             THEN MissingKeyError(params)
             ELSE Ok(params)

\* The loop without its except clause: the error of the first candidate
\* that lacks a key ends the search.
ScanParFilesNoSkip(f, par_files, i) ==
    IF i > Len(par_files)
    THEN Raise("ImportError", {"*par"})
    ELSE LET r == parseParameterFile(f, par_files[i])
         IN  IF r.ok THEN Ok(par_files[i]) ELSE r

\* The loop of _getParameterFile over the candidates from position i on.
RECURSIVE ScanParFiles(_, _, _)
ScanParFiles(f, par_files, i) ==
    IF i > Len(par_files)
    THEN Raise("ImportError", {"*par"})
    ELSE LET r == parseParameterFile(f, par_files[i])
         IN  IF r.ok THEN Ok(par_files[i])
             ELSE IF r.exc = "ImportError"
                  THEN ScanParFiles(f, par_files, i + 1)
                  ELSE r

\* The candidates of _getParameterFile.
ParCandidates(f, path) == GlobSuffix(f, Dirname(path), <<"p", "a", "r">>)

\* par_files is the glob's list, in the order the glob gave it.
getParameterFile(f, par_files) == ScanParFiles(f, par_files, 1)

\* The argument par_file: NoArg when the caller passes none.
NoArg == <<"-">>

\* Gamma.validate.  The default of kwargs.pop is computed before the pop,
\* so the directory is searched also when par_file is given.
GammaValidateResult(f, par_arg, par_files) ==
    LET found == getParameterFile(f, par_files)
    IN  IF ~found.ok
        THEN IF found.exc = "ImportError" THEN Ok(PyBool(FALSE)) ELSE found
        ELSE LET par_file == IF par_arg = NoArg THEN found.val ELSE par_arg
                 r == parseParameterFile(f, par_file)
             IN  IF r.ok THEN Ok(PyBool(TRUE))
                 ELSE IF r.exc = "ImportError" THEN Ok(PyBool(FALSE))
                 ELSE r

(***************************************************************************)
(* Gamma: the angle grids and read.                                        *)
(***************************************************************************)
\* num.memmap(p, mode='r', dtype): an empty file cannot be mapped
Memmap(f, p, order) ==
    IF Unreadable(f, p) THEN Raise("IOError", {"memmap"})
    ELSE LET data == Decode(Content(f, p), order)
         IN  IF Len(data) = 0 THEN Raise("ValueError", {"memmap"})
             ELSE Ok(NdArray(<<Len(data)>>, data))

\* num.fromfile(p, dtype)
Fromfile(f, p, order) ==
    IF Unreadable(f, p) THEN Raise("IOError", {"fromfile"})
    ELSE LET data == Decode(Content(f, p), order)
         IN  Ok(NdArray(<<Len(data)>>, data))

\* Gamma._getAngle: the outcome and the warning logged, if any.  pattern is
\* '*phi*' or '*theta*', sub the text between its stars.
getAngle(f, filename, sub, pattern) ==
    LET phi_files == GlobInfix(f, Dirname(filename), sub)
    IN  IF Cardinality(phi_files) = 0
        THEN [res |-> Ok(PyFloat(Zero)), warn |-> {<<"Could not find", pattern>>}]
        ELSE IF Cardinality(phi_files) > 1
        THEN [res |-> Ok(PyFloat(Zero)), warn |-> {<<"Found multiple", pattern>>}]
        ELSE [res |-> Memmap(f, CHOOSE p \in phi_files : TRUE, "BE"),
              warn |-> {}]

\* int(v) of a parameter: a float that is a number truncates, NaN and a
\* str that float() refused raise ValueError
PyInt(v) ==
    IF v.t = "float" /\ v.x.t = "num"
    THEN Ok(IF v.x.e >= 0 THEN v.x.m * Pow10(v.x.e)
            ELSE IF v.x.m >= 0 THEN v.x.m \div Pow10(0 - v.x.e)
            ELSE 0 - ((0 - v.x.m) \div Pow10(0 - v.x.e)))
    ELSE IF v.t = "float" /\ v.x.t = "negzero" THEN Ok(0)
    ELSE Raise("ValueError", {"int"})

RECURSIVE Repeat(_, _)
Repeat(s, n) == IF n <= 0 THEN <<>> ELSE s \o Repeat(s, n - 1)

\* v * n for a parameter v and an int n: a str is repeated
PyTimesInt(v, n) ==
    IF v.t = "float" THEN PyFloat(FMulInt(v.x, n)) ELSE PyStr(Repeat(v.s, n))

\* a + b for two parameters
PyPlus(a, b) ==
    IF a.t = "float" /\ b.t = "float" THEN Ok(PyFloat(FAdd(a.x, b.x)))
    ELSE IF a.t = "str" /\ b.t = "str" THEN Ok(PyStr(a.s \o b.s))
    ELSE Raise("TypeError", {"+"})

\* The expression assigned to container['llLat'] (nrows is the width).
GammaLLLat(par, nrows, nlines) ==
    PyPlus(par["corner_lat"], PyTimesInt(par["post_lat"], nrows))

\* displ[displ == -0.] = num.nan
GammaRecode(flat) == RecodeZeros(flat)

\* The assignments that end Gamma.read, from container['displacement'] on.
GammaPublish(c, f, warn, par, displ, theta, phi, nrows, nlines) ==
    LET c1 == [c EXCEPT !["displacement"] = NpMap(displ, Times1em2)]
        lat == GammaLLLat(par, nrows, nlines)
    IN  IF ~lat.ok THEN Result(lat, c1, warn, f)
        ELSE LET c2 == [c1 EXCEPT !["llLat"] = lat.val,
                                  !["llLon"] = par["corner_lon"],
                                  !["dLon"] = par["post_lon"],
                                  !["dLat"] = par["post_lat"],
                                  !["theta"] = theta,
                                  !["phi"] = phi]
             IN  Result(Ok(SelfContainer), c2, warn, f)

\* Gamma.read from the angle grids on: displ is reshaped and recoded, fill
\* is the padding (PyNone when there is none).
GammaAngles(c, f, filename, par, displ, fill, nrows, nlines) ==
    LET a_phi == getAngle(f, filename, <<"p", "h", "i">>, "*phi*")
        a_theta == getAngle(f, filename, <<"t", "h", "e", "t", "a">>, "*theta*")
    IN  IF ~a_phi.res.ok THEN Result(a_phi.res, c, a_phi.warn, f)
        ELSE IF ~a_theta.res.ok
        THEN Result(a_theta.res, c, a_phi.warn \cup a_theta.warn, f)
        ELSE
        LET warn == a_phi.warn \cup a_theta.warn
            cosd == NpMap(a_theta.res.val, FCos)
            theta == IF fill = PyNone THEN cosd ELSE NpAppend(cosd, fill)
            phi == IF fill = PyNone THEN a_phi.res.val
                   ELSE NpAppend(a_phi.res.val, fill)
            theta2 == NpReshape(theta, nlines, nrows)
            phi2 == NpReshape(phi, nlines, nrows)
        IN  IF ~theta2.ok THEN Result(theta2, c, warn, f)
            ELSE IF ~phi2.ok THEN Result(phi2, c, warn, f)
            ELSE GammaPublish(c, f, warn, par, displ, theta2.val, phi2.val,
                              nrows, nlines)

\* The padding sized by the elements of the last row, not by those it lacks.
GammaFillRemainder(size, nrows) ==
    IF size % nrows # 0 THEN NaNs(size % nrows) ELSE PyNone

\* The padding of Gamma.read: PyNone, or the NaNs that complete the last row
GammaFill(size, nrows) ==
    IF size % nrows # 0 THEN NaNs(nrows - (size % nrows)) ELSE PyNone

\* Gamma.read from num.fromfile on.
GammaGrid(c, f, filename, par, nrows, nlines) ==
    LET raw == Fromfile(f, filename, "BE")
    IN  IF ~raw.ok THEN Result(raw, c, {}, f)
        ELSE IF nrows = 0
        THEN Result(Raise("ZeroDivisionError", {"%"}), c, {}, f)
        ELSE
        LET fill == GammaFill(Len(raw.val.flat), nrows)
            padded == IF fill = PyNone THEN raw.val ELSE NpAppend(raw.val, fill)
            shaped == NpReshape(padded, nlines, nrows)
        IN  IF ~shaped.ok THEN Result(shaped, c, {}, f)
            ELSE GammaAngles(c, f, filename, par,
                             NdArray(shaped.val.shape,
                                     GammaRecode(shaped.val.flat)),
                             fill, nrows, nlines)

\* Gamma.read: c is the reader's container before the call.
GammaReadResult(c, f, filename, par_arg, par_files) ==
    LET found == getParameterFile(f, par_files)
    IN  IF ~found.ok THEN Result(found, c, {}, f)
        ELSE
        LET par_file == IF par_arg = NoArg THEN found.val ELSE par_arg
            par == parseParameterFile(f, par_file)
        IN  IF ~par.ok THEN Result(par, c, {}, f)
            ELSE
            LET nrows == PyInt(par.val["width"])
                nlines == PyInt(par.val["nlines"])
            IN  IF ~nrows.ok \/ ~nlines.ok
                THEN Result(Raise("ImportError", {"width and nlines"}), c, {}, f)
                ELSE GammaGrid(c, f, filename, par.val, nrows.val, nlines.val)

(***************************************************************************)
(* ISCE.  The XML metadata maps a name to a component (a dictionary of     *)
(* property texts) or to a property (one text).                            *)
(***************************************************************************)
\* ISCEXMLParser.type_convert: float(value), else str(value)
type_convert(text) ==
    IF text.literal THEN PyFloat(text.x) ELSE PyStr(text.words)

\* ISCEXMLParser.getProperty: a dictionary, a scalar or None
getProperty(xml, name) ==
    IF name \notin DOMAIN xml.props THEN PyNone
    ELSE IF xml.props[name].tag = "property"
    THEN type_convert(xml.props[name].text)
    ELSE [t |-> "dict",
          d |-> [k \in DOMAIN xml.props[name].values |->
                    type_convert(xml.props[name].values[k])]]

\* v[key] for what getProperty returned
Subscript(v, key) ==
    IF v.t # "dict" THEN Raise("TypeError", {"subscript"})
    ELSE IF key \notin DOMAIN v.d THEN Raise("KeyError", {key})
    ELSE Ok(v.d[key])

\* num.abs(v)
NpAbs(v) ==
    IF v.t = "float" THEN Ok(NpFloat(FAbs(v.x)))
    ELSE Raise("TypeError", {"abs"})

\* ISCE._getLOSFile; rdr_files is the glob's list in the glob's order
ISCEgetLOSFile(rdr_files) ==
    IF Len(rdr_files) = 0 THEN Raise("ImportError", {".rdr.geo"})
    ELSE Ok(rdr_files[1])

\* The directory _getLOSFile globs in.
LOSDir(f, path) == IF ~IsDir(f, path) THEN Dirname(path) ELSE path
RdrCandidates(f, path) ==
    GlobSuffix(f, LOSDir(f, path), <<".", "r", "d", "r", ".", "g", "e", "o">>)
UnwCandidates(f, path) ==
    GlobSuffix(f, path, <<".", "u", "n", "w", ".", "g", "e", "o">>)

\* ISCE._getDisplacementFile; files is the glob's list in the glob's order
ISCEgetDisplacementFile(f, path, files) ==
    IF ~IsFile(f, path) /\ Len(files) = 0
    THEN Raise("ImportError", {".unw.geo"})
    ELSE LET disp_file == IF IsFile(f, path) THEN path ELSE files[1]
         IN  IF ~IsFile(f, WithXml(disp_file))
             THEN Raise("ImportError", {".unw.geo.xml"})
             ELSE Ok(disp_file)

\* ISCE.validate
ISCEValidateResult(f, path, files, rdr_files) ==
    IF ~ISCEgetDisplacementFile(f, path, files).ok THEN Ok(PyBool(FALSE))
    ELSE IF ~ISCEgetLOSFile(rdr_files).ok THEN Ok(PyBool(FALSE))
    ELSE Ok(PyBool(TRUE))

\* ET.parse(filename).getroot()
ISCEXMLParser(f, filename) ==
    IF Unreadable(f, filename) THEN Raise("IOError", {"open"})
    ELSE IF Content(f, filename).kind = "xml" /\ Content(f, filename).wellformed
    THEN Ok(Content(f, filename))
    ELSE Raise("ParseError", {"xml"})

\* Positions, in a grid of rows of 2*n elements, of the elements of the
\* left or the right half of every row, row after row.
HalfIndex(k, n, right) ==
    ((k - 1) \div n) * 2 * n + ((k - 1) % n) + 1 + (IF right THEN n ELSE 0)
\* a.reshape(l, 2*n)[:, :n] and a.reshape(l, 2*n)[:, n:]
Half(flat, l, n, right) ==
    NdArray(<<l, n>>, [k \in 1..(l * n) |-> flat[HalfIndex(k, n, right)]])

\* The positions of the right halves.
RightPositions(l, n) == {HalfIndex(k, n, TRUE) : k \in 1..(l * n)}

\* What displacement[displacement == 0.] = num.nan leaves in the mapped
\* file: num.memmap maps the file for reading and writing (mode 'r+'), so
\* the assignment to the view reaches the file.
ISCEWriteBack(f, disp_file, l, n) ==
    LET c == Content(f, disp_file)
    IN  IF c.kind = "bin" /\ c.order = "LE"
        THEN [f EXCEPT ![disp_file[2]] =
                [c EXCEPT !.data =
                    [i \in 1..Len(c.data) |->
                        IF i \in RightPositions(l, n) /\ EqualsZero(c.data[i])
                        THEN NaN ELSE c.data[i]]]]
        ELSE f

\* ISCE.read from the look-vector file on.
ISCELos(c, f, rdr_files, nlat, nlon) ==
    LET los_file == ISCEgetLOSFile(rdr_files)
    IN  IF ~los_file.ok THEN Result(los_file, c, {}, f)
        ELSE
        LET raw == Fromfile(f, los_file.val, "LE")
        IN  IF ~raw.ok THEN Result(raw, c, {}, f)
            ELSE
            LET los_data == NpReshape(raw.val, nlat, nlon * 2)
            IN  IF ~los_data.ok THEN Result(los_data, c, {}, f)
                ELSE
                LET c1 == [c EXCEPT
                             !["phi"] = Half(los_data.val.flat, nlat, nlon, FALSE),
                             !["theta"] = NpMap(Half(los_data.val.flat, nlat,
                                                     nlon, TRUE), Plus90)]
                IN  Result(Ok(SelfContainer), c1, {}, f)

\* ISCE.read from the displacement grid on.
ISCEGrid(c, f, disp_file, rdr_files, nlat, nlon) ==
    LET mapped == Memmap(f, disp_file, "LE")
    IN  IF ~mapped.ok THEN Result(mapped, c, {}, f)
        ELSE
        LET shaped == NpReshape(mapped.val, nlat, nlon * 2)
        IN  IF ~shaped.ok THEN Result(shaped, c, {}, f)
            ELSE
            LET band == Half(shaped.val.flat, nlat, nlon, TRUE)
                displacement == NdArray(band.shape, RecodeZeros(band.flat))
                f1 == ISCEWriteBack(f, disp_file, nlat, nlon)
                c1 == [c EXCEPT !["displacement"] =
                                    NpMap(displacement, Times1em2)]
            IN  ISCELos(c1, f1, rdr_files, nlat, nlon)

\* The start plus the cell size alone: the count of rows left out.
ISCELLLatOneRow(startingvalue, nlat, delta) ==
    PyPlus(startingvalue, delta)

\* The expression assigned to container['llLat'].
ISCELLLat(startingvalue, nlat, delta) ==
    PyPlus(startingvalue, PyTimesInt(delta, nlat))

\* container['dLat'] and container['dLon']
ISCEDelta(delta) == NpAbs(delta)

\* ISCE.read from the metadata on.
ISCEMeta(c, f, xml, disp_file, rdr_files) ==
    LET coord_lon == getProperty(xml, "coordinate1")
        coord_lat == getProperty(xml, "coordinate2")
        lat_delta == Subscript(coord_lat, "delta")
        lon_delta == Subscript(coord_lon, "delta")
        lon_size == Subscript(coord_lon, "size")
        lat_size == Subscript(coord_lat, "size")
        lat_start == Subscript(coord_lat, "startingvalue")
        lon_start == Subscript(coord_lon, "startingvalue")
    IN  IF ~lat_delta.ok THEN Result(lat_delta, c, {}, f)
        ELSE IF ~ISCEDelta(lat_delta.val).ok
        THEN Result(ISCEDelta(lat_delta.val), c, {}, f)
        ELSE
        LET c1 == [c EXCEPT !["dLat"] = ISCEDelta(lat_delta.val).val]
        IN  IF ~lon_delta.ok THEN Result(lon_delta, c1, {}, f)
            ELSE IF ~ISCEDelta(lon_delta.val).ok
            THEN Result(ISCEDelta(lon_delta.val), c1, {}, f)
            ELSE
            LET c2 == [c1 EXCEPT !["dLon"] = ISCEDelta(lon_delta.val).val]
            IN  IF ~lon_size.ok THEN Result(lon_size, c2, {}, f)
                ELSE IF ~PyInt(lon_size.val).ok
                THEN Result(PyInt(lon_size.val), c2, {}, f)
                ELSE IF ~lat_size.ok THEN Result(lat_size, c2, {}, f)
                ELSE IF ~PyInt(lat_size.val).ok
                THEN Result(PyInt(lat_size.val), c2, {}, f)
                ELSE IF ~lat_start.ok THEN Result(lat_start, c2, {}, f)
                ELSE
                LET nlon == PyInt(lon_size.val).val
                    nlat == PyInt(lat_size.val).val
                    lat == ISCELLLat(lat_start.val, nlat, lat_delta.val)
                IN  IF ~lat.ok THEN Result(lat, c2, {}, f)
                    ELSE IF ~lon_start.ok
                    THEN Result(lon_start, [c2 EXCEPT !["llLat"] = lat.val],
                                {}, f)
                    ELSE ISCEGrid([c2 EXCEPT !["llLat"] = lat.val,
                                             !["llLon"] = lon_start.val],
                                  f, disp_file, rdr_files, nlat, nlon)

\* ISCE.read
ISCEReadResult(c, f, path, files, rdr_files) ==
    LET disp_file == ISCEgetDisplacementFile(f, path, files)
    IN  IF ~disp_file.ok THEN Result(disp_file, c, {}, f)
        ELSE
        LET isce_xml == ISCEXMLParser(f, WithXml(disp_file.val))
        IN  IF ~isce_xml.ok THEN Result(isce_xml, c, {}, f)
            ELSE ISCEMeta(c, f, isce_xml.val, disp_file.val, rdr_files)

(***************************************************************************)
(* Arithmetic the GMTSAR and Matlab readers need.                          *)
(***************************************************************************)
IsNumber(a) == a.t \in {"num", "negzero"}
AsNum(a) == IF a.t = "negzero" THEN Zero ELSE a

\* a - b, kept as an expression when an operand is no decimal number
Minus(a, b) ==
    IF (IsNumber(a) \/ IsNaN(a)) /\ (IsNumber(b) \/ IsNaN(b)) THEN FSub(a, b)
    ELSE [t |-> "minus", a |-> a, b |-> b]

\* a / n for a numpy float a and a positive or zero whole number n: the
\* decimal quotient when it has at most three more digits than a, the
\* quotient as an expression otherwise; numpy divides by zero without raising
Over(a, n) ==
    IF IsNaN(a) THEN NaN
    ELSE IF n = 0
    THEN (IF IsNumber(a) /\ AsNum(a).m = 0 THEN NaN ELSE [t |-> "inf", of |-> a])
    ELSE IF IsNumber(a) /\ AsNum(a).m = 0 THEN a
    ELSE IF IsNumber(a) /\ \E k \in 0..3 : (a.m * Pow10(k)) % n = 0
    THEN LET k == CHOOSE i \in 0..3 :
                     /\ (a.m * Pow10(i)) % n = 0
                     /\ \A j \in 0..(i - 1) : (a.m * Pow10(j)) % n # 0
         IN  Dec((a.m * Pow10(k)) \div n, a.e - k)
    ELSE [t |-> "over", a |-> a, n |-> n]

\* a.min() and a.max() of an array without NaN
ArrMin(flat) ==
    CHOOSE x \in {flat[i] : i \in 1..Len(flat)} :
        \A i \in 1..Len(flat) : ~FLess(flat[i], x)
ArrMax(flat) ==
    CHOOSE x \in {flat[i] : i \in 1..Len(flat)} :
        \A i \in 1..Len(flat) : ~FLess(x, flat[i])
NpMin(a) ==
    IF Len(a.flat) = 0 THEN Raise("ValueError", {"min"})
    ELSE IF \E i \in 1..Len(a.flat) : IsNaN(a.flat[i]) THEN Ok(NaN)
    ELSE Ok(ArrMin(a.flat))
NpMax(a) ==
    IF Len(a.flat) = 0 THEN Raise("ValueError", {"max"})
    ELSE IF \E i \in 1..Len(a.flat) : IsNaN(a.flat[i]) THEN Ok(NaN)
    ELSE Ok(ArrMax(a.flat))

RECURSIVE Product(_)
Product(shape) == IF shape = <<>> THEN 1 ELSE Head(shape) * Product(Tail(shape))

\* a.reshape(shape)
NpReshapeTo(a, shape) ==
    IF Len(a.flat) = Product(shape) THEN Ok(NdArray(shape, a.flat))
    ELSE Raise("ValueError", {"reshape"})

\* a[start::6] for the 0-based start
Strided(a, start) ==
    LET count == IF Len(a.flat) > start
                 THEN ((Len(a.flat) - start - 1) \div 6) + 1 ELSE 0
    IN  NdArray(<<count>>, [j \in 1..count |-> a.flat[start + 1 + 6 * (j - 1)]])

(***************************************************************************)
(* GMTSAR.                                                                 *)
(***************************************************************************)
GrdCandidates(f, path) == GlobSuffix(f, path, <<".", "g", "r", "d">>)
LosCandidates(f, path) ==
    GlobInfix(f, LOSDir(f, path), <<".", "l", "o", "s", ".">>)

\* GMTSAR._getDisplacementFile; files is the glob's list in the glob's order
GMTSARgetDisplacementFile(f, path, files) ==
    IF IsFile(f, path) THEN Ok(path)
    ELSE IF Len(files) = 0 THEN Raise("ImportError", {"*.grd"})
    ELSE Ok(files[1])

\* GMTSAR._getLOSFile: the outcome and the warning it logs
GMTSARgetLOSFile(los_files) ==
    IF Len(los_files) = 0
    THEN [res |-> Raise("ImportError", {"*.los.*"}),
          warn |-> {<<"GMTSAR.__doc__", "*.los.*">>}]
    ELSE [res |-> Ok(los_files[1]), warn |-> {}]

\* GMTSAR.validate: filename[-4:] == '.grd' of the displacement file
GMTSARValidateResult(f, path, files) ==
    LET disp == GMTSARgetDisplacementFile(f, path, files)
    IN  IF ~disp.ok THEN Ok(PyBool(FALSE))
        ELSE Ok(PyBool(EndsWith(Basename(disp.val), <<".", "g", "r", "d">>)))

\* netcdf.netcdf_file(p, mode='r', version=2)
NetcdfFile(f, p) ==
    IF Unreadable(f, p) THEN Raise("IOError", {"open"})
    ELSE IF Content(f, p).kind = "netcdf" THEN Ok(Content(f, p))
    ELSE Raise("TypeError", {"netcdf"})

\* grd.variables[name][:]
Variable(grd, name) ==
    IF name \in DOMAIN grd.vars THEN Ok(grd.vars[name])
    ELSE Raise("KeyError", {name})

\* shape[i] for the 0-based i
ShapeAt(shape, i) ==
    IF i + 1 <= Len(shape) THEN Ok(shape[i + 1])
    ELSE Raise("IndexError", {"shape"})

\* The look angles of one pixel from its east, north and up components:
\* rad2deg(arctan(n/e)), plus 180 where n < 0, and rad2deg(arccos(u)).
ThetaOf(e, n) == [t |-> "atan_deg", n |-> n, e |-> e, plus180 |-> FLess(n, Zero)]
PhiOf(u) == [t |-> "acos_deg", u |-> u]

\* The try block with no except clause: a missing look-vector file ends
\* the read.
GMTSARLosNoExcept(c, f, path, los_files, shape) ==
    LET found == GMTSARgetLOSFile(los_files)
    IN  IF ~found.res.ok THEN Result(found.res, c, found.warn, f)
        ELSE Result(Ok(SelfContainer), c, {}, f)

\* The try block of GMTSAR.read, with its except clause.
GMTSARLos(c, f, path, los_files, shape) ==
    LET found == GMTSARgetLOSFile(los_files)
    IN  IF ~found.res.ok
        THEN LET c0 == [c EXCEPT !["theta"] = PyFloat(Zero),
                                 !["phi"] = PyFloat(Zero)]
             IN  Result(Ok(SelfContainer), c0,
                        found.warn \cup {<<"Defaulting theta and phi to 0", "">>},
                        f)
        ELSE
        LET los == Memmap(f, found.res.val, "LE")
        IN  IF ~los.ok THEN Result(los, c, {}, f)
            ELSE
            LET e == NpReshapeTo(Strided(los.val, 3), shape)
                n == NpReshapeTo(Strided(los.val, 4), shape)
                u == NpReshapeTo(Strided(los.val, 5), shape)
            IN  IF ~e.ok THEN Result(e, c, {}, f)
                ELSE IF ~n.ok THEN Result(n, c, {}, f)
                ELSE IF ~u.ok THEN Result(u, c, {}, f)
                ELSE
                LET theta == NdArray(shape, [i \in 1..Len(e.val.flat) |->
                                 ThetaOf(e.val.flat[i], n.val.flat[i])])
                    phi == NpMap(u.val, PhiOf)
                    c1 == [c EXCEPT !["phi"] = phi, !["theta"] = theta]
                IN  Result(Ok(SelfContainer), c1, {}, f)

\* container['dLat'] and container['dLon']: (axis.max() - ll) / n
GMTSARDelta(axis_max, ll, n) == Over(Minus(axis_max, ll), n)

\* GMTSAR.read from container['llLat'] on; c holds the displacement.
GMTSARLatLon(c, f, path, los_files, grd, shape) ==
    LET lat == Variable(grd, "lat")
        lon == Variable(grd, "lon")
    IN  IF ~lat.ok THEN Result(lat, c, {}, f)
        ELSE IF ~NpMin(lat.val).ok THEN Result(NpMin(lat.val), c, {}, f)
        ELSE
        LET c1 == [c EXCEPT !["llLat"] = NpFloat(NpMin(lat.val).val)]
        IN  IF ~lon.ok THEN Result(lon, c1, {}, f)
            ELSE IF ~NpMin(lon.val).ok THEN Result(NpMin(lon.val), c1, {}, f)
            ELSE
            LET c2 == [c1 EXCEPT !["llLon"] = NpFloat(NpMin(lon.val).val)]
                n1 == ShapeAt(shape, 1)
                n0 == ShapeAt(shape, 0)
            IN  IF ~n1.ok THEN Result(n1, c2, {}, f)
                ELSE IF ~n0.ok THEN Result(n0, c2, {}, f)
                ELSE
                LET c3 == [c2 EXCEPT
                        !["dLat"] = NpFloat(GMTSARDelta(NpMax(lat.val).val,
                                        NpMin(lat.val).val, n1.val)),
                        !["dLon"] = NpFloat(GMTSARDelta(NpMax(lon.val).val,
                                        NpMin(lon.val).val, n0.val))]
                IN  GMTSARLos(c3, f, path, los_files, shape)

\* GMTSAR.read
GMTSARReadResult(c, f, path, files, los_files) ==
    LET disp == GMTSARgetDisplacementFile(f, path, files)
    IN  IF ~disp.ok THEN Result(disp, c, {}, f)
        ELSE
        LET grd == NetcdfFile(f, disp.val)
        IN  IF ~grd.ok THEN Result(grd, c, {}, f)
            ELSE
            LET z == Variable(grd.val, "z")
            IN  IF ~z.ok THEN Result(z, c, {}, f)
                ELSE GMTSARLatLon(
                        [c EXCEPT !["displacement"] = NpMap(z.val, Times1em2)],
                        f, path, los_files, grd.val, z.val.shape)

(***************************************************************************)
(* Matlab.                                                                 *)
(***************************************************************************)
\* Matlab.validate: filename[-4:] == '.mat'
MatlabValidateResult(path) ==
    Ok(PyBool(EndsWith(Basename(path), <<".", "m", "a", "t">>)))

\* The container's keys as the characters the loop looks for in the name
\* of a variable.
KeyChars(k) ==
    CASE k = "phi" -> <<"p", "h", "i">>
      [] k = "theta" -> <<"t", "h", "e", "t", "a">>
      [] k = "displacement" ->
            <<"d", "i", "s", "p", "l", "a", "c", "e", "m", "e", "n", "t">>
      [] k = "llLon" -> <<"l", "l", "L", "o", "n">>
      [] k = "llLat" -> <<"l", "l", "L", "a", "t">>
      [] k = "dLat" -> <<"d", "L", "a", "t">>
      [] k = "dLon" -> <<"d", "L", "o", "n">>

\* scipy.io.loadmat(filename)
Loadmat(f, p) ==
    IF Unreadable(f, p) THEN Raise("IOError", {"open"})
    ELSE IF Content(f, p).kind = "mat" THEN Ok(Content(f, p).vars)
    ELSE Raise("ValueError", {"loadmat"})

\* One pass of the inner loop for the variable mat_k: st holds the
\* container and the locals utm_e and utm_n (PyNone while unbound).
MatlabAssign(st, mat, mat_k) ==
    LET hit == {k \in Fields : Contains(mat_k, KeyChars(k))}
        others == Fields \ hit
        c1 == [k \in Fields |-> IF k \in hit THEN mat[mat_k] ELSE st.c[k]]
    IN  IF others = {} THEN [st EXCEPT !.c = c1]
        ELSE IF Contains(mat_k, <<"i", "g", "_">>)
        THEN [st EXCEPT !.c = [c1 EXCEPT !["displacement"] = mat[mat_k]]]
        ELSE IF Contains(mat_k, <<"x", "x">>)
        THEN [st EXCEPT !.c = c1, !.utm_e = NdArray(<<Len(mat[mat_k].flat)>>,
                                                   mat[mat_k].flat)]
        ELSE IF Contains(mat_k, <<"y", "y">>)
        THEN [st EXCEPT !.c = c1, !.utm_n = NdArray(<<Len(mat[mat_k].flat)>>,
                                                   mat[mat_k].flat)]
        ELSE [st EXCEPT !.c = c1]

\* The outer loop over the variables, in the order names of the dictionary.
RECURSIVE MatlabLoop(_, _, _, _)
MatlabLoop(st, mat, names, i) ==
    IF i > Len(names) THEN st
    ELSE MatlabLoop(MatlabAssign(st, mat, names[i]), mat, names, i + 1)

Times1e3(a) == FScale(a, 3)

\* utm.to_latlon(easting, northing, 32, 'N'): the range check of the utm
\* package, and the converted coordinates as expressions
UtmOutOfRange(easting, northing) ==
    \/ FLess(easting, Num(100000)) \/ ~FLess(easting, Num(1000000))
    \/ FLess(northing, Zero) \/ FLess(Num(10000000), northing)
UtmLat(easting, northing) == [t |-> "utm_lat", e |-> easting, n |-> northing]
UtmLon(easting, northing) == [t |-> "utm_lon", e |-> easting, n |-> northing]

\* a[i] for the 0-based i
ItemAt(a, i) ==
    IF i + 1 <= Len(a.flat) THEN Ok(a.flat[i + 1])
    ELSE Raise("IndexError", {"index"})

\* The except clause of Matlab.read.
MatlabFallback(c, f, utm_e, utm_n) ==
    LET c1 == [c EXCEPT !["llLat"] = PyFloat(Zero), !["llLon"] = PyFloat(Zero)]
    IN  IF ~ItemAt(utm_e, 1).ok THEN Result(ItemAt(utm_e, 1), c1, {}, f)
        ELSE
        LET c2 == [c1 EXCEPT !["dLat"] =
                     NpFloat(Over(Minus(ItemAt(utm_e, 1).val,
                                        ItemAt(utm_e, 0).val), 110000))]
        IN  IF ~ItemAt(utm_n, 1).ok THEN Result(ItemAt(utm_n, 1), c2, {}, f)
            ELSE
            LET c3 == [c2 EXCEPT !["dLon"] =
                         NpFloat(Over(Minus(ItemAt(utm_n, 1).val,
                                            ItemAt(utm_n, 0).val), 110000))]
            IN  Result(Ok(SelfContainer), c3,
                       {<<"Could not interpret spatial vectors", "">>}, f)

\* The try block of Matlab.read.
MatlabGeo(c, f, utm_e, utm_n) ==
    LET e_min == NpMin(utm_e).val
        n_min == NpMin(utm_n).val
        e_max == NpMax(utm_e).val
        n_max == NpMax(utm_n).val
    IN  IF UtmOutOfRange(e_min, n_min) THEN MatlabFallback(c, f, utm_e, utm_n)
        ELSE
        LET c1 == [c EXCEPT !["llLat"] = PyFloat(UtmLat(e_min, n_min)),
                            !["llLon"] = PyFloat(UtmLon(e_min, n_min))]
        IN  IF UtmOutOfRange(e_max, n_max)
            THEN MatlabFallback(c1, f, utm_e, utm_n)
            ELSE IF c1["displacement"].t # "ndarray"
            THEN Result(Raise("AttributeError", {"shape"}), c1, {}, f)
            ELSE
            LET shape == c1["displacement"].shape
            IN  IF ~ShapeAt(shape, 0).ok THEN Result(ShapeAt(shape, 0), c1, {}, f)
                ELSE IF ShapeAt(shape, 0).val = 0
                THEN Result(Raise("ZeroDivisionError", {"/"}), c1, {}, f)
                ELSE
                LET c2 == [c1 EXCEPT !["dLat"] =
                             PyFloat(Over(Minus(UtmLat(e_max, n_max),
                                                UtmLat(e_min, n_min)),
                                          ShapeAt(shape, 0).val))]
                IN  IF ~ShapeAt(shape, 1).ok
                    THEN Result(ShapeAt(shape, 1), c2, {}, f)
                    ELSE IF ShapeAt(shape, 1).val = 0
                    THEN Result(Raise("ZeroDivisionError", {"/"}), c2, {}, f)
                    ELSE
                    LET c3 == [c2 EXCEPT !["dLon"] =
                                 PyFloat(Over(Minus(UtmLon(e_max, n_max),
                                                    UtmLon(e_min, n_min)),
                                              ShapeAt(shape, 1).val))]
                    IN  Result(Ok(SelfContainer), c3, {}, f)

\* Matlab.read; names is the order in which the dictionary of variables
\* is iterated.
MatlabReadResult(c, f, filename, names) ==
    LET mat == Loadmat(f, filename)
    IN  IF ~mat.ok THEN Result(mat, c, {}, f)
        ELSE
        LET st == MatlabLoop([c |-> c, utm_e |-> PyNone, utm_n |-> PyNone],
                             mat.val, names, 1)
        IN  IF st.utm_e = PyNone
            THEN Result(Raise("UnboundLocalError", {"utm_e"}), st.c, {}, f)
            ELSE IF ~NpMin(st.utm_e).ok
            THEN Result(NpMin(st.utm_e), st.c, {}, f)
            ELSE IF st.utm_n = PyNone
            THEN Result(Raise("UnboundLocalError", {"utm_n"}), st.c, {}, f)
            ELSE IF ~NpMin(st.utm_n).ok
            THEN Result(NpMin(st.utm_n), st.c, {}, f)
            ELSE
            LET small == \/ FLess(NpMin(st.utm_e).val, Num(10000))
                         \/ FLess(NpMin(st.utm_n).val, Num(10000))
                utm_e == IF small THEN NpMap(st.utm_e, Times1e3) ELSE st.utm_e
                utm_n == IF small THEN NpMap(st.utm_n, Times1e3) ELSE st.utm_n
            IN  MatlabGeo(st.c, f, utm_e, utm_n)

(***************************************************************************)
(* The directories the behaviours start from.                              *)
(***************************************************************************)
Bin(order, data) == [kind |-> "bin", order |-> order, data |-> data]
Text(lines) == [kind |-> "text", lines |-> lines, size |-> 1]
SubDir == [kind |-> "dir"]
Xml(wellformed, props) ==
    [kind |-> "xml", wellformed |-> wellformed, props |-> props, size |-> 1]
Netcdf(variables) == [kind |-> "netcdf", vars |-> variables, size |-> 1]
Mat(variables) == [kind |-> "mat", vars |-> variables, size |-> 1]

Literal(x) == [literal |-> TRUE, x |-> x, words |-> <<>>]
Words(w) == [literal |-> FALSE, x |-> NaN, words |-> w]
Line(key, text) == [matched |-> TRUE, key |-> key, text |-> text]
TitleLine == [matched |-> FALSE, key |-> "", text |-> Words(<<"Gamma">>)]

n_data == <<"s">>
n_par == <<"s", ".", "p", "a", "r">>
n_par2 == <<"b", ".", "p", "a", "r">>
n_prm == <<"s", ".", "p", "r", "m">>
n_phi == <<"s", ".", "p", "h", "i">>
n_phi2 == <<"b", ".", "p", "h", "i">>
n_theta == <<"s", ".", "t", "h", "e", "t", "a">>
n_theta2 == <<"b", ".", "t", "h", "e", "t", "a">>
n_unw == <<"u", ".", "u", "n", "w", ".", "g", "e", "o">>
n_unw_xml == n_unw \o <<".", "x", "m", "l">>
n_rdr == <<"l", ".", "r", "d", "r", ".", "g", "e", "o">>
n_grd == <<"g", ".", "g", "r", "d">>
n_los == <<"e", ".", "l", "o", "s", ".", "e", "n", "u">>
n_mat == <<"m", ".", "m", "a", "t">>
n_mat2 == <<"b", ".", "m", "a", "t">>
n_missing == <<"n", "o">>

\* n elements 100, 200, ... (a displacement in centimetres)
Ramp(n) == [i \in 1..n |-> Num(100 * i)]
\* n angles 10, 20, ...
Angles(n) == [i \in 1..n |-> Num(10 * i)]

Specials == {Zero, NegZero, NaN}

\* The values of a complete Gamma parameter file for l lines of width w.
ParValues(l, w) ==
    [k \in {required[i] : i \in 1..Len(required)} |->
        CASE k = "corner_lat" -> Literal(Num(45))
          [] k = "corner_lon" -> Literal(Num(10))
          [] k = "nlines" -> Literal(Num(l))
          [] k = "width" -> Literal(Num(w))
          [] k = "post_lat" -> Literal(Dec(-1, -1))
          [] k = "post_lon" -> Literal(Dec(2, -1))]

\* A parameter file: a title line, a line for every key of values that is
\* not in missing, in the order of required, and the data format.
ParText(values, missing) ==
    Text(<<TitleLine>>
         \o SelectSeq([i \in 1..Len(required) |->
                          Line(required[i], values[required[i]])],
                      LAMBDA l : l.key \notin missing)
         \o <<Line("data_format", Words(<<"REAL*4">>))>>)

\* A Gamma product: data of n elements, angle grids of n elements.
GammaProduct(l, w, data) ==
    (n_data :> Bin("BE", data)) @@ (n_par :> ParText(ParValues(l, w), {}))
    @@ (n_phi :> Bin("BE", Angles(Len(data))))
    @@ (n_theta :> Bin("BE", Angles(Len(data))))

\* Products of every declared shape and every length up to one element more
\* than the shape holds.
GammaShapeDirs ==
    {GammaProduct(l, w, Ramp(n)) :
        <<l, w, n>> \in {x \in (0..MaxLines) \X (0..MaxWidth)
                               \X (0..(MaxLines * MaxWidth + 1)) :
                            x[3] <= x[1] * x[2] + 1}}

\* Products of the largest shape, the last row complete or not, with one
\* element zero, negative zero or NaN.
GammaSentinelDirs ==
    {GammaProduct(MaxLines, MaxWidth, [Ramp(n) EXCEPT ![k] = v]) :
        <<n, k, v>> \in {x \in (1..(MaxLines * MaxWidth))
                               \X (1..(MaxLines * MaxWidth)) \X Specials :
                            /\ x[2] <= x[1]
                            /\ x[1] > (MaxLines - 1) * MaxWidth}}

\* A choice of the angle grids present: 0, 1 or 2 of each.
AngleFiles(nphi, ntheta, n) ==
    [m \in ((IF nphi >= 1 THEN {n_phi} ELSE {})
            \cup (IF nphi >= 2 THEN {n_phi2} ELSE {})
            \cup (IF ntheta >= 1 THEN {n_theta} ELSE {})
            \cup (IF ntheta >= 2 THEN {n_theta2} ELSE {})) |->
        Bin("BE", Angles(n))]

\* Products with zero, one or two phi grids and theta grids.
GammaAngleDirs ==
    {(n_data :> Bin("BE", Ramp(x[1][3])))
     @@ (n_par :> ParText(ParValues(x[1][1], x[1][2]), {}))
     @@ AngleFiles(x[2], x[3], x[1][3]) :
        x \in {<<1, 1, 1>>, <<1, MaxWidth, 1>>,
               <<MaxLines, MaxWidth, MaxLines * MaxWidth>>}
              \X (0..2) \X (0..2)}

\* Most keys a generated parameter file lacks.
MaxMissing == 2

RequiredKeys == {required[i] : i \in 1..Len(required)}

\* A second entry ending in 'par': a complete parameter file, or a
\* directory.
SecondPar == {n_par2 :> ParText(ParValues(1, 1), {}), n_par2 :> SubDir}

\* Products whose parameter file lacks keys, alone or beside a second
\* entry ending in 'par'.
GammaParDirs ==
    {(n_par :> ParText(ParValues(1, 1), m)) @@ GammaProduct(1, 1, Ramp(1)) :
        m \in {k \in SUBSET RequiredKeys : Cardinality(k) <= MaxMissing}}
    \cup {(n_par :> ParText(ParValues(1, 1), x[1])) @@ x[2]
          @@ GammaProduct(1, 1, Ramp(1)) :
            x \in {{}, {"corner_lat"}, {"width", "post_lon"}} \X SecondPar}

\* Products whose parameter file gives a unit after a value ('45.0 decimal
\* degrees'), which float() refuses.
WithUnit(values, keys) ==
    [k \in DOMAIN values |->
        IF k \in keys THEN Words(<<"1.0", "decimal">>) ELSE values[k]]
GammaUnitDirs ==
    {(n_par :> ParText(WithUnit(ParValues(1, 1), keys), {}))
     @@ GammaProduct(1, 1, Ramp(1)) :
        keys \in SUBSET {"corner_lat", "post_lat", "width"}}

GammaDirs ==
    GammaShapeDirs \cup GammaSentinelDirs \cup GammaAngleDirs
    \cup GammaParDirs \cup GammaUnitDirs

\* ISCE metadata: the two coordinate components.
Component(delta, size, startingvalue) ==
    [tag |-> "component",
     values |-> [k \in {"delta", "size", "startingvalue"} |->
                    CASE k = "delta" -> delta
                      [] k = "size" -> Literal(Num(size))
                      [] k = "startingvalue" -> startingvalue]]
Without(component, key) ==
    [component EXCEPT !.values =
        [k \in DOMAIN component.values \ {key} |-> component.values[k]]]
Coordinate1(nlon) == Component(Literal(Dec(2, -1)), nlon, Literal(Num(10)))
Coordinate2(nlat) == Component(Literal(Dec(-1, -1)), nlat, Literal(Num(45)))
IsceXml(nlat, nlon) ==
    Xml(TRUE, ("coordinate1" :> Coordinate1(nlon))
              @@ ("coordinate2" :> Coordinate2(nlat)))

IsceShapes == {<<1, 1>>, <<2, 1>>, <<1, 2>>}

\* Displacement grids of 2*nlat*nlon elements: all non-zero, one element
\* zero, the last element negative zero, or one element short.
IsceGrids(nlat, nlon) ==
    {Ramp(2 * nlat * nlon), Ramp(2 * nlat * nlon - 1),
     [Ramp(2 * nlat * nlon) EXCEPT ![2 * nlat * nlon] = NegZero]}
    \cup {[Ramp(2 * nlat * nlon) EXCEPT ![k] = Zero] : k \in 1..(2 * nlat * nlon)}

\* The look-vector file: none, of the size of the grid, or one short.
IsceRdr(nlat, nlon) ==
    {<<>>, n_rdr :> Bin("LE", Angles(2 * nlat * nlon)),
     n_rdr :> Bin("LE", Angles(2 * nlat * nlon - 1))}

IsceGridDirs ==
    UNION {{(n_unw :> Bin("LE", g)) @@ (n_unw_xml :> IsceXml(sh[1], sh[2])) @@ r :
                <<g, r>> \in IsceGrids(sh[1], sh[2]) \X IsceRdr(sh[1], sh[2])} :
           sh \in IsceShapes}

\* Metadata that is absent, malformed or incomplete.
IsceXmlVariants ==
    {<<>>,
     n_unw_xml :> Xml(FALSE, <<>>),
     n_unw_xml :> Xml(TRUE, "coordinate1" :> Coordinate1(1)),
     n_unw_xml :> Xml(TRUE, "coordinate2" :> Coordinate2(1)),
     n_unw_xml :> Xml(TRUE, ("coordinate1" :> Coordinate1(1))
                   @@ ("coordinate2" :> Without(Coordinate2(1), "size"))),
     n_unw_xml :> Xml(TRUE, ("coordinate1" :> Without(Coordinate1(1), "startingvalue"))
                   @@ ("coordinate2" :> Coordinate2(1))),
     n_unw_xml :> Xml(TRUE, ("coordinate1" :> Component(Words(<<"east">>), 1,
                                                     Literal(Num(10))))
                   @@ ("coordinate2" :> Coordinate2(1))),
     n_unw_xml :> Xml(TRUE, ("coordinate1" :> Coordinate1(1))
                   @@ ("coordinate2" :> [tag |-> "property",
                                         text |-> Literal(Num(45))]))}

IsceMetaDirs ==
    {u @@ x @@ r :
        <<u, x, r>> \in {<<>>, n_unw :> Bin("LE", Ramp(2))}
                        \X IsceXmlVariants
                        \X {<<>>, n_rdr :> Bin("LE", Angles(2))}}

ISCEDirs == IsceGridDirs \cup IsceMetaDirs

\* GMTSAR grids: z of a shape with its axes, or with a variable missing,
\* or z of one dimension.
Grd(shape) ==
    Netcdf(("z" :> NdArray(shape, Ramp(Product(shape))))
           @@ ("lat" :> NdArray(<<2>>, <<Num(44), Num(45)>>))
           @@ ("lon" :> NdArray(<<2>>, <<Num(12), Num(10)>>)))
DropVariable(grd, name) ==
    [grd EXCEPT !.vars = [k \in DOMAIN grd.vars \ {name} |-> grd.vars[k]]]
GrdVariants ==
    {Grd(sh) : sh \in {<<1, 1>>, <<1, 2>>, <<2, 1>>, <<2>>}}
    \cup {DropVariable(Grd(<<1, 1>>), v) : v \in {"z", "lat", "lon"}}

\* The look-vector file of k records of six numbers, the last one possibly
\* cut after its fifth number.
LosData(k, cut) == [i \in 1..(6 * k - (IF cut THEN 1 ELSE 0)) |-> Num(i % 6)]
LosVariants ==
    {<<>>} \cup {n_los :> Bin("LE", LosData(k, cut)) :
                    <<k, cut>> \in (0..2) \X BOOLEAN}

GMTSARDirs ==
    {(n_grd :> g) @@ l : <<g, l>> \in GrdVariants \X LosVariants}
    \cup {l : l \in LosVariants}

\* Matlab containers: the coordinate vectors in metres, in kilometres, out
\* of the range of the UTM conversion, or of one element.
CoordinateVectors ==
    {<<Num(500000), Num(500100)>>, <<Num(500), Num(501)>>,
     <<Num(2000000), Num(2000100)>>, <<Num(2000000), Num(2000000)>>,
     <<Num(2000000)>>, <<>>}
v_ig == <<"i", "g", "_", "m">>
v_ig2 == <<"i", "g", "_", "p", "h", "i">>
v_xx == <<"x", "x">>
v_yy == <<"y", "y">>
v_theta == <<"t", "h", "e", "t", "a">>
MatVars(xs) ==
    (v_ig :> NdArray(<<1, 2>>, Ramp(2)))
    @@ (v_xx :> NdArray(<<Len(xs), 1>>, xs))
    @@ (v_yy :> NdArray(<<1, Len(xs)>>, xs))
MatVariants ==
    {MatVars(xs) : xs \in CoordinateVectors}
    \cup {[k \in DOMAIN MatVars(<<Num(500000), Num(500100)>>) \ {v} |->
              MatVars(<<Num(500000), Num(500100)>>)[k]] : v \in {v_ig, v_xx, v_yy}}
    \cup {MatVars(<<Num(2000000), Num(2000100)>>)
          @@ (v_ig2 :> NdArray(<<2, 1>>, Angles(2))),
          MatVars(<<Num(500000), Num(500100)>>)
          @@ (v_theta :> NdArray(<<1, 2>>, Angles(2)))}

MatlabDirs == {n_mat :> Mat(m) : m \in MatVariants}

\* Two Matlab files side by side, the first one with a theta variable.
MatlabPairDirs ==
    {(n_mat :> Mat(MatVars(<<Num(500000), Num(500100)>>)
                   @@ (v_theta :> NdArray(<<1, 2>>, Angles(2)))))
     @@ (n_mat2 :> Mat(MatVars(<<Num(600000), Num(600300)>>)))}

\* Products whose metadata give a cell size of zero: a Gamma post_lat of 0,
\* an ISCE delta of 0, a GMTSAR latitude axis whose entries are equal.
ZeroDeltaDirs ==
    {(n_par :> ParText([ParValues(1, 1) EXCEPT !["post_lat"] = Literal(Zero)],
                       {}))
     @@ GammaProduct(1, 1, Ramp(1)),
     (n_unw :> Bin("LE", Ramp(2)))
     @@ (n_unw_xml :> Xml(TRUE, ("coordinate1" :> Coordinate1(1))
                                @@ ("coordinate2" :>
                                      Component(Literal(Zero), 1,
                                                Literal(Num(45))))))
     @@ (n_rdr :> Bin("LE", Angles(2))),
     (n_grd :> Netcdf(("lat" :> NdArray(<<2>>, <<Num(44), Num(44)>>))
                      @@ Grd(<<1, 1>>).vars))
     @@ (n_los :> Bin("LE", LosData(1, FALSE)))}

\* Products whose complete parameter file has a name that does not end in
\* 'par', alone or beside a '*par' file that lacks a key.
GammaExplicitParDirs ==
    {(n_prm :> ParText(ParValues(1, 2), {})) @@ x
     @@ (n_data :> Bin("BE", Ramp(2)))
     @@ AngleFiles(1, 1, 2) :
        x \in {<<>>, n_par :> ParText(ParValues(1, 2), {"width"})}}

\* Directories that hold products of several formats.
MixedDirs ==
    {g @@ i @@ t @@ m :
        <<g, i, t, m>> \in
            {<<>>, GammaProduct(1, 1, Ramp(1))}
            \X {<<>>, (n_unw :> Bin("LE", Ramp(2))) @@ (n_unw_xml :> IsceXml(1, 1))
                      @@ (n_rdr :> Bin("LE", Angles(2)))}
            \X {<<>>, (n_grd :> Grd(<<1, 1>>)) @@ (n_los :> Bin("LE", LosData(1, FALSE)))}
            \X {<<>>, n_mat :> Mat(MatVars(<<Num(500000), Num(500100)>>))}}

Directories ==
    GammaDirs \cup ISCEDirs \cup GMTSARDirs \cup MatlabDirs
    \cup MatlabPairDirs \cup ZeroDeltaDirs \cup GammaExplicitParDirs
    \cup MixedDirs

(***************************************************************************)
(* The state: the directory, the container of each of the four reader      *)
(* objects, and the last call with its outcome.                            *)
(***************************************************************************)
\* The paths a caller passes: the directory, its entries, a missing entry.
Paths(f) ==
    {DirPath} \cup {FilePath(n) : n \in DOMAIN f} \cup {FilePath(n_missing)}

\* The par_file arguments a caller passes: none, an entry ending in 'par',
\* a missing file.
ParArgs(f) ==
    {NoArg} \cup {FilePath(n) : n \in DOMAIN f \cap {n_par, n_par2, n_prm}}
    \cup {FilePath(n_missing)}

Call(op, reader, path, par_arg, res, warn) ==
    [op |-> op, reader |-> reader, path |-> path, par_arg |-> par_arg,
     res |-> res, warn |-> warn,
     before |-> container[reader]]

Init ==
    /\ fs \in Directories
    /\ container = [r \in Readers |-> EmptyContainer]
    /\ last = [op |-> "none", reader |-> "none", path |-> <<>>,
               par_arg |-> NoArg, res |-> Ok(PyNone), warn |-> {},
               before |-> EmptyContainer]
    /\ ncalls = 0

\* A call of validate: it returns or raises, and assigns nothing.
Validated(reader, path, par_arg, res) ==
    /\ last' = Call("validate", reader, path, par_arg, res, {})
    /\ ncalls' = ncalls + 1
    /\ UNCHANGED <<fs, container>>

\* A call of read: r is what the read hands back.
ReadDone(reader, path, par_arg, r) ==
    /\ last' = Call("read", reader, path, par_arg, r.res, r.warn)
    /\ container' = [container EXCEPT ![reader] = r.container]
    /\ fs' = r.fs
    /\ ncalls' = ncalls + 1

MatlabValidate ==
    /\ ncalls < MaxCalls
    /\ \E path \in Paths(fs) :
        Validated("Matlab", path, NoArg, MatlabValidateResult(path))

\* A validate that keeps the parameter file it found in the container.
GammaValidateCaching ==
    /\ ncalls < MaxCalls
    /\ \E path \in Paths(fs), par_arg \in ParArgs(fs) :
        \E par_files \in Orders(ParCandidates(fs, path)) :
            LET res == GammaValidateResult(fs, par_arg, par_files)
            IN  /\ last' = Call("validate", "Gamma", path, par_arg, res, {})
                /\ ncalls' = ncalls + 1
                /\ container' =
                      [container EXCEPT !["Gamma"]["llLat"] =
                          IF res.ok /\ res.val = PyBool(TRUE)
                          THEN PyFloat(Zero) ELSE @]
                /\ UNCHANGED fs

GammaValidate ==
    /\ ncalls < MaxCalls
    /\ \E path \in Paths(fs), par_arg \in ParArgs(fs) :
        \E par_files \in Orders(ParCandidates(fs, path)) :
            Validated("Gamma", path, par_arg,
                      GammaValidateResult(fs, par_arg, par_files))

ISCEValidate ==
    /\ ncalls < MaxCalls
    /\ \E path \in Paths(fs) :
        \E files \in Orders(UnwCandidates(fs, path)),
           rdr_files \in Orders(RdrCandidates(fs, path)) :
            Validated("ISCE", path, NoArg,
                      ISCEValidateResult(fs, path, files, rdr_files))

GMTSARValidate ==
    /\ ncalls < MaxCalls
    /\ \E path \in Paths(fs) :
        \E files \in Orders(GrdCandidates(fs, path)) :
            Validated("GMTSAR", path, NoArg,
                      GMTSARValidateResult(fs, path, files))

MatlabRead ==
    /\ ncalls < MaxCalls
    /\ \E path \in Paths(fs) :
        \E names \in Orders(IF IsFile(fs, path) /\ Content(fs, path).kind = "mat"
                            THEN DOMAIN Content(fs, path).vars ELSE {}) :
            ReadDone("Matlab", path, NoArg,
                     MatlabReadResult(container["Matlab"], fs, path, names))

GammaRead ==
    /\ ncalls < MaxCalls
    /\ \E path \in Paths(fs), par_arg \in ParArgs(fs) :
        \E par_files \in Orders(ParCandidates(fs, path)) :
            ReadDone("Gamma", path, par_arg,
                     GammaReadResult(container["Gamma"], fs, path, par_arg,
                                     par_files))

ISCERead ==
    /\ ncalls < MaxCalls
    /\ \E path \in Paths(fs) :
        \E files \in Orders(UnwCandidates(fs, path)),
           rdr_files \in Orders(RdrCandidates(fs, path)) :
            ReadDone("ISCE", path, NoArg,
                     ISCEReadResult(container["ISCE"], fs, path, files,
                                    rdr_files))

GMTSARRead ==
    /\ ncalls < MaxCalls
    /\ \E path \in Paths(fs) :
        \E files \in Orders(GrdCandidates(fs, path)),
           los_files \in Orders(LosCandidates(fs, path)) :
            ReadDone("GMTSAR", path, NoArg,
                     GMTSARReadResult(container["GMTSAR"], fs, path, files,
                                      los_files))

Next ==
    \/ MatlabValidate
    \/ GammaValidate
    \/ ISCEValidate
    \/ GMTSARValidate
    \/ MatlabRead
    \/ GammaRead
    \/ ISCERead
    \/ GMTSARRead

Spec == Init /\ [][Next]_vars

(***************************************************************************)
(* The claims.                                                             *)
(***************************************************************************)
\* The displacement elements of the file the last call was given.
LastData == fs[last.path[2]].data

\* The whole number a complete parameter file declares for key.
Declared(par, key) ==
    LET l == CHOOSE l \in {par.lines[i] : i \in 1..Len(par.lines)} :
                l.matched /\ l.key = key
    IN  l.text.x.m * Pow10(l.text.x.e)

\* The parameter file has a line with a number for every required key.
CompletePar(par) ==
    /\ par.kind = "text"
    /\ \A k \in RequiredKeys :
        \E i \in 1..Len(par.lines) :
            /\ par.lines[i].matched
            /\ par.lines[i].key = k
            /\ par.lines[i].text.literal

\* The directory holds a Gamma product and nothing else: the data file, a
\* parameter file with a number for every required key, and one phi and
\* one theta grid with as many elements as the data file.
GammaProductOnly(f) ==
    /\ DOMAIN f = {n_data, n_par, n_phi, n_theta}
    /\ CompletePar(f[n_par])
    /\ f[n_data].kind = "bin" /\ f[n_data].order = "BE"
    /\ Len(f[n_phi].data) = Len(f[n_data].data)
    /\ Len(f[n_theta].data) = Len(f[n_data].data)

\* The last call was Gamma.read of the data file of such a product, with
\* the product's parameter file or none passed.
GammaReadOfProduct ==
    /\ last.op = "read" /\ last.reader = "Gamma"
    /\ GammaProductOnly(fs)
    /\ last.path = FilePath(n_data)
    /\ last.par_arg \in {NoArg, FilePath(n_par)}

\* Cell i of the displacement holds element i of the file, in metres, when
\* that element is a number other than zero.
KeepsFileOrder(d, data, n) ==
    \A i \in 1..n :
        (data[i].t = "num" /\ data[i].m # 0)
            => d.flat[i] = Dec(data[i].m, data[i].e - 2)

\* What C2 says of a product declaring l lines of width w with n elements.
PaddedAsDeclared(l, w, n) ==
    LET d == container["Gamma"]["displacement"]
    IN  /\ n = l * w =>
            /\ last.res.ok
            /\ d.t = "ndarray" /\ d.shape = <<l, w>> /\ Len(d.flat) = n
            /\ KeepsFileOrder(d, LastData, n)
        /\ (w >= 1 /\ n % w # 0 /\ n + (w - (n % w)) = l * w) =>
            /\ last.res.ok
            /\ d.t = "ndarray" /\ d.shape = <<l, w>> /\ Len(d.flat) = l * w
            /\ \A i \in (n + 1)..(l * w) : IsNaN(d.flat[i])
            /\ KeepsFileOrder(d, LastData, n)

\* C1: whenever read ends in a failure, every field of the reader's
\* container still has the value it had before the call.
C1_FailedReadLeavesContainer ==
    (last.op = "read" /\ ~last.res.ok)
        => container[last.reader] = last.before

\* C2 as stated: Gamma read of a product declaring nlines=L and width=W
\* with n elements gives an L-by-W displacement without padding when
\* n = L*W, and one whose last L*W - n cells are NaN when n is not a
\* multiple of W and the next multiple of W is L*W; the other cells keep
\* their file order.
C2_GammaPaddingAnyLength ==
    GammaReadOfProduct
        => PaddedAsDeclared(Declared(fs[n_par], "nlines"),
                            Declared(fs[n_par], "width"), Len(LastData))

\* C2 amended: the same for a data file of at least one element and a
\* declared width of at least one.
C2_GammaPadding ==
    (/\ GammaReadOfProduct
     /\ Len(LastData) >= 1
     /\ Declared(fs[n_par], "width") >= 1)
        => PaddedAsDeclared(Declared(fs[n_par], "nlines"),
                            Declared(fs[n_par], "width"), Len(LastData))

\* C2 witness: a read that padded two cells of the last row.
C2_Witness ==
    /\ GammaReadOfProduct /\ last.res.ok
    /\ Declared(fs[n_par], "nlines") * Declared(fs[n_par], "width")
          = Len(LastData) + 2
    /\ IsNaN(container["Gamma"]["displacement"].flat[Len(LastData) + 2])

\* C3: after a successful Gamma read every displacement cell whose input
\* element was negative zero is NaN, and every cell whose input element
\* was ordinary zero is the number zero.
C3_OnlyNegativeZeroRecoded ==
    (GammaReadOfProduct /\ last.res.ok)
        => \A i \in 1..Len(LastData) :
            /\ LastData[i] = NegZero
                => IsNaN(container["Gamma"]["displacement"].flat[i])
            /\ LastData[i] = Zero
                => container["Gamma"]["displacement"].flat[i] = Zero

\* C4: validate never raises: it always returns a boolean.
C4_ValidateNeverRaises ==
    last.op = "validate" => (last.res.ok /\ last.res.val.t = "bool")

\* What validate of a reader may return for a path, over the orders in
\* which the globs may list the directory.
ValidateOutcomes(reader, f, path) ==
    CASE reader = "Matlab" -> {MatlabValidateResult(path)}
      [] reader = "Gamma" ->
            {GammaValidateResult(f, NoArg, o) :
                o \in Orders(ParCandidates(f, path))}
      [] reader = "ISCE" ->
            {ISCEValidateResult(f, path, o[1], o[2]) :
                o \in Orders(UnwCandidates(f, path))
                      \X Orders(RdrCandidates(f, path))}
      [] reader = "GMTSAR" ->
            {GMTSARValidateResult(f, path, o) :
                o \in Orders(GrdCandidates(f, path))}

\* C5: at most one of the four validates returns true for a path and a
\* directory content.
C5_ValidateMutuallyExclusive ==
    (last.op = "validate" /\ last.res = Ok(PyBool(TRUE)))
        => \A r \in Readers \ {last.reader} :
            Ok(PyBool(TRUE)) \notin ValidateOutcomes(r, fs, last.path)

\* C6: validate leaves the directory and every field of every container
\* as they were before the call.
C6_ValidateIsPure ==
    [][(ncalls' = ncalls + 1 /\ last'.op = "validate")
          => (fs' = fs /\ container' = container)]_vars

\* C6 witness: a validate that returned true on a reader whose container
\* an earlier read had filled.
C6_Witness ==
    /\ last.op = "validate" /\ last.res = Ok(PyBool(TRUE))
    /\ container[last.reader]["displacement"] # PyNone
    /\ container[last.reader] = last.before

\* The directory holds an ISCE displacement grid of the size its metadata
\* declares and the metadata, and no look-vector file.
ISCEWithoutLos(f) ==
    /\ DOMAIN f = {n_unw, n_unw_xml}
    /\ f[n_unw].kind = "bin" /\ f[n_unw].order = "LE"
    /\ f[n_unw_xml].wellformed
    /\ \E sh \in IsceShapes :
        /\ f[n_unw_xml] = IsceXml(sh[1], sh[2])
        /\ Len(f[n_unw].data) = 2 * sh[1] * sh[2]

\* C7: ISCE read on a directory with the displacement file and its XML but
\* no *.rdr.geo file fails with an error naming .rdr.geo, and the
\* container's displacement is still unset.
C7_MissingLosBeforeDisplacement ==
    (/\ last.op = "read" /\ last.reader = "ISCE"
     /\ last.path = DirPath
     /\ last.before = EmptyContainer
     /\ ISCEWithoutLos(fs))
        => /\ ~last.res.ok
           /\ last.res.exc = "ImportError"
           /\ ".rdr.geo" \in last.res.msg
           /\ container["ISCE"]["displacement"] = PyNone

\* The directory holds a Gamma product whose data fill the declared shape
\* and any number of phi and theta grids of the size of the data.
GammaProductAnyAngles(f) ==
    /\ {n_data, n_par} \subseteq DOMAIN f
    /\ DOMAIN f \subseteq {n_data, n_par, n_phi, n_phi2, n_theta, n_theta2}
    /\ CompletePar(f[n_par])
    /\ f[n_data].kind = "bin" /\ f[n_data].order = "BE"
    /\ Len(f[n_data].data) >= 1
    /\ Len(f[n_data].data)
          = Declared(f[n_par], "nlines") * Declared(f[n_par], "width")
    /\ \A a \in DOMAIN f \ {n_data, n_par} :
          Len(f[a].data) = Len(f[n_data].data)

\* The angle field is zero: the scalar, or a grid of zeros.
IsZeroAngle(a) ==
    \/ a.t \in {"float", "npfloat"} /\ EqualsZero(a.x)
    \/ a.t = "ndarray" /\ \A i \in 1..Len(a.flat) : EqualsZero(a.flat[i])

\* C8: Gamma read of an otherwise valid product does not fail when the
\* '*phi*' or the '*theta*' glob matches no file or several: a diagnostic
\* is logged, the read returns, and the angle field is zero.
C8_MissingAngleDefaultsToZero ==
    (/\ last.op = "read" /\ last.reader = "Gamma"
     /\ last.path = FilePath(n_data) /\ last.par_arg = NoArg
     /\ GammaProductAnyAngles(fs))
        => /\ Cardinality(DOMAIN fs \cap {n_phi, n_phi2}) # 1
              => /\ last.res.ok
                 /\ \E w \in last.warn : w[2] = "*phi*"
                 /\ IsZeroAngle(container["Gamma"]["phi"])
           /\ Cardinality(DOMAIN fs \cap {n_theta, n_theta2}) # 1
              => /\ last.res.ok
                 /\ \E w \in last.warn : w[2] = "*theta*"
                 /\ IsZeroAngle(container["Gamma"]["theta"])

\* The required keys the parameter file at p has no line for.
MissingKeys(f, p) ==
    {k \in RequiredKeys :
        \A i \in 1..Len(Content(f, p).lines) :
            ~(Content(f, p).lines[i].matched /\ Content(f, p).lines[i].key = k)}

\* The last call was a Gamma read that passed a parameter file lacking
\* several required keys, and the error of parsing it reached the caller.
ParseErrorReachedCaller ==
    /\ last.op = "read" /\ last.reader = "Gamma"
    /\ last.par_arg # NoArg
    /\ IsFile(fs, last.par_arg) /\ Content(fs, last.par_arg).kind = "text"
    /\ Cardinality(MissingKeys(fs, last.par_arg)) >= 2
    /\ ~last.res.ok /\ last.res.exc = "ImportError"
    /\ last.res.msg \subseteq RequiredKeys

\* C9: the error of parsing a parameter file that lacks several
\* required keys names every missing key.
C9_ErrorNamesEveryMissingKey ==
    ParseErrorReachedCaller
        => MissingKeys(fs, last.par_arg) \subseteq last.res.msg

\* The number the parameter file gives for key.
DeclaredValue(par, key) ==
    (CHOOSE l \in {par.lines[i] : i \in 1..Len(par.lines)} :
        l.matched /\ l.key = key).text.x

\* C10: after a successful Gamma read llLat is corner_lat + post_lat *
\* nlines, llLon is corner_lon, dLat is post_lat and dLon is post_lon.
C10_GammaLowerLeft ==
    (GammaReadOfProduct /\ last.res.ok)
        => LET c == container["Gamma"]
               par == fs[n_par]
           IN  /\ c["llLat"] =
                    PyFloat(FAdd(DeclaredValue(par, "corner_lat"),
                                 FMulInt(DeclaredValue(par, "post_lat"),
                                         Declared(par, "nlines"))))
               /\ c["llLon"] = PyFloat(DeclaredValue(par, "corner_lon"))
               /\ c["dLat"] = PyFloat(DeclaredValue(par, "post_lat"))
               /\ c["dLon"] = PyFloat(DeclaredValue(par, "post_lon"))

\* The number the ISCE metadata of the directory gives for a key of a
\* coordinate component.
MetaValue(f, coordinate, key) ==
    f[n_unw_xml].props[coordinate].values[key].x

\* The last call was a successful ISCE read.
ISCEReadOk ==
    last.op = "read" /\ last.reader = "ISCE" /\ last.res.ok

\* C11: after a successful ISCE read llLat is startingvalue + size * delta
\* of the metadata's coordinate2, exactly, and llLon is the startingvalue
\* of coordinate1.
C11_ISCELowerLeft ==
    ISCEReadOk
        => /\ container["ISCE"]["llLat"] =
                PyFloat(FAdd(MetaValue(fs, "coordinate2", "startingvalue"),
                             FMulInt(MetaValue(fs, "coordinate2", "delta"),
                                     PyInt(PyFloat(MetaValue(fs, "coordinate2",
                                                             "size"))).val)))
           /\ container["ISCE"]["llLon"] =
                PyFloat(MetaValue(fs, "coordinate1", "startingvalue"))

\* C11 witness: a successful ISCE read of a grid of two rows, whose llLat
\* is two cells from the start.
C11_Witness ==
    /\ ISCEReadOk
    /\ MetaValue(fs, "coordinate2", "size") = Num(2)
    /\ container["ISCE"]["llLat"] = PyFloat(Dec(448, -1))

\* The field holds a number other than zero (a quotient the model keeps as
\* an expression has a non-zero dividend and counts as one).
IsNonZero(v) ==
    /\ v.t \in {"float", "npfloat"}
    /\ ~IsNaN(v.x)
    /\ ~EqualsZero(v.x)

\* The directory's Matlab file holds a displacement and coordinate vectors
\* of at least two entries, every entry beyond the eastings the UTM
\* conversion accepts.
MatlabOutOfRange(f) ==
    /\ n_mat \in DOMAIN f
    /\ f[n_mat].kind = "mat"
    /\ {v_ig, v_xx, v_yy} \subseteq DOMAIN f[n_mat].vars
    /\ \A v \in {v_xx, v_yy} :
        /\ Len(f[n_mat].vars[v].flat) >= 2
        /\ \A i \in 1..Len(f[n_mat].vars[v].flat) :
            ~FLess(f[n_mat].vars[v].flat[i], Num(1000000))

\* C12: Matlab read of coordinate vectors that the UTM conversion reports
\* out of range does not fail: llLat and llLon are 0.0, dLat and dLon are
\* not zero, and a warning is logged.
C12_MatlabDegradedMode ==
    (/\ last.op = "read" /\ last.reader = "Matlab"
     /\ last.path = FilePath(n_mat)
     /\ MatlabOutOfRange(fs))
        => /\ last.res.ok
           /\ container["Matlab"]["llLat"] = PyFloat(Zero)
           /\ container["Matlab"]["llLon"] = PyFloat(Zero)
           /\ IsNonZero(container["Matlab"]["dLat"])
           /\ IsNonZero(container["Matlab"]["dLon"])
           /\ last.warn # {}

\* The directory holds a GMTSAR grid with z of two dimensions and its two
\* axes, and no entry matching '*.los.*'.
GrdWithoutLos(f) ==
    /\ n_grd \in DOMAIN f
    /\ f[n_grd].kind = "netcdf"
    /\ {"z", "lat", "lon"} \subseteq DOMAIN f[n_grd].vars
    /\ Len(f[n_grd].vars["z"].shape) = 2
    /\ LosCandidates(f, DirPath) = {}

\* The container GMTSAR read gives for the same grid when the directory
\* also holds a look-vector file of one record for every cell of z.
WithLos(c, f) ==
    GMTSARReadResult(
        c, (n_los :> Bin("LE", LosData(Product(f[n_grd].vars["z"].shape),
                                       FALSE))) @@ f,
        DirPath, <<FilePath(n_grd)>>, <<FilePath(n_los)>>).container

\* The last call was a GMTSAR read of a grid without look vectors.
GMTSARReadWithoutLos ==
    /\ last.op = "read" /\ last.reader = "GMTSAR"
    /\ last.path \in {DirPath, FilePath(n_grd)}
    /\ GrdWithoutLos(fs)

\* C13: GMTSAR read of a valid grid in a directory without a '*.los.*'
\* file does not fail: it logs a warning, theta and phi are both zero, and
\* displacement, llLat, llLon, dLat and dLon are as they are when the
\* look-vector file exists.
C13_MissingLosDefaultsToZero ==
    GMTSARReadWithoutLos
        => /\ last.res.ok
           /\ \E w \in last.warn : w[1] = "Defaulting theta and phi to 0"
           /\ container["GMTSAR"]["theta"] = PyFloat(Zero)
           /\ container["GMTSAR"]["phi"] = PyFloat(Zero)
           /\ \A k \in {"displacement", "llLat", "llLon", "dLat", "dLon"} :
                /\ container["GMTSAR"][k] # PyNone
                /\ container["GMTSAR"][k] = WithLos(last.before, fs)[k]

\* C13 witness: such a read of a grid of one row and two columns, after
\* which the angles are zero and the displacement is the grid in metres.
C13_Witness ==
    /\ GMTSARReadWithoutLos /\ last.res.ok
    /\ container["GMTSAR"]["theta"] = PyFloat(Zero)
    /\ container["GMTSAR"]["displacement"] = NdArray(<<1, 2>>, <<Num(1), Num(2)>>)
    /\ WithLos(last.before, fs)["theta"].t = "ndarray"

\* What read of a reader with container c may hand back for a path, over
\* the orders in which the globs may list the directory and the dictionary
\* of a Matlab file may be iterated.
ReadOutcomes(reader, c, f, path, par_arg) ==
    CASE reader = "Matlab" ->
            {MatlabReadResult(c, f, path, o) :
                o \in Orders(IF IsFile(f, path) /\ Content(f, path).kind = "mat"
                             THEN DOMAIN Content(f, path).vars ELSE {})}
      [] reader = "Gamma" ->
            {GammaReadResult(c, f, path, par_arg, o) :
                o \in Orders(ParCandidates(f, path))}
      [] reader = "ISCE" ->
            {ISCEReadResult(c, f, path, o[1], o[2]) :
                o \in Orders(UnwCandidates(f, path))
                      \X Orders(RdrCandidates(f, path))}
      [] reader = "GMTSAR" ->
            {GMTSARReadResult(c, f, path, o[1], o[2]) :
                o \in Orders(GrdCandidates(f, path))
                      \X Orders(LosCandidates(f, path))}

\* The step is a read that succeeds on a product which decodes in one way
\* only, whatever the order of the listings.
ReadsValidProduct ==
    /\ ncalls' = ncalls + 1
    /\ last'.op = "read" /\ last'.res.ok
    /\ Cardinality(ReadOutcomes(last'.reader, container[last'.reader], fs,
                                last'.path, last'.par_arg)) = 1

\* The step repeats the call the state before it records.
RepeatsLastRead ==
    /\ last.op = "read" /\ last.res.ok
    /\ last'.reader = last.reader
    /\ last'.path = last.path
    /\ last'.par_arg = last.par_arg

\* C14: reading a valid product twice in a row gives containers that are
\* equal field by field, and the files the second read finds have the
\* contents the first read found: a read leaves the files as they were,
\* and a repeated read leaves the container as the first one left it.
C14_ReadIsIdempotent ==
    [][ReadsValidProduct
          => /\ fs' = fs
             /\ RepeatsLastRead
                  => container'[last'.reader] = container[last'.reader]]_vars

\* The files a read of a reader targets for a path: the file itself and
\* whatever its globs list.
FilesRead(reader, f, path, par_arg) ==
    CASE reader = "Matlab" -> {path}
      [] reader = "Gamma" ->
            {path} \cup ParCandidates(f, path)
            \cup (IF par_arg = NoArg THEN {} ELSE {par_arg})
            \cup GlobInfix(f, Dirname(path), <<"p", "h", "i">>)
            \cup GlobInfix(f, Dirname(path), <<"t", "h", "e", "t", "a">>)
      [] reader = "ISCE" ->
            {path} \cup UnwCandidates(f, path) \cup RdrCandidates(f, path)
            \cup {WithXml(p) : p \in {path} \cup UnwCandidates(f, path)}
      [] reader = "GMTSAR" ->
            {path} \cup GrdCandidates(f, path) \cup LosCandidates(f, path)

\* The step is a read that follows a read which returned its container,
\* and the two target disjoint files.
ReadsDisjointFiles ==
    /\ ncalls' = ncalls + 1
    /\ last'.op = "read"
    /\ last.op = "read" /\ last.res = Ok(SelfContainer)
    /\ FilesRead(last.reader, fs, last.path, last.par_arg)
       \cap FilesRead(last'.reader, fs, last'.path, last'.par_arg) = {}

\* C15: of two reads that target disjoint files, run one after the other
\* (one of the interleavings), the second leaves the container the first
\* returned as it was, and returns the container it returns when run
\* alone on a new reader.
C15_NoSharedStateAcrossReads ==
    [][ReadsDisjointFiles
          => /\ container'[last.reader] = container[last.reader]
             /\ last'.res.ok
                  => container'[last'.reader] \in
                        {o.container :
                            o \in ReadOutcomes(last'.reader, EmptyContainer, fs,
                                               last'.path, last'.par_arg)}]_vars

\* The field holds the number zero.
IsZeroField(v) == v.t \in {"float", "npfloat"} /\ EqualsZero(v.x)

\* C16: in the container of every successful read dLat and dLon are both
\* non-zero; inputs that give a zero delta make the read fail.
C16_DeltasNeverZero ==
    (last.op = "read" /\ last.res.ok)
        => /\ ~IsZeroField(container[last.reader]["dLat"])
           /\ ~IsZeroField(container[last.reader]["dLon"])

\* The element count n after padding to a full row of width w.
PaddedCount(n, w) == IF n % w = 0 THEN n ELSE n + (w - (n % w))

\* C17: Gamma read fails with ImportError, and with no other exception,
\* when the element count padded to a full row cannot be reshaped to
\* nlines by width.
C17_ReshapeFailsWithImportError ==
    (/\ GammaReadOfProduct
     /\ Declared(fs[n_par], "width") >= 1
     /\ PaddedCount(Len(LastData), Declared(fs[n_par], "width"))
          # Declared(fs[n_par], "nlines") * Declared(fs[n_par], "width"))
        => (~last.res.ok /\ last.res.exc = "ImportError")

\* The last call was a Gamma call on the data file that passed a complete
\* parameter file as par_file, in a directory whose data fill the shape
\* that file declares and that holds one phi and one theta grid.
ExplicitParCall ==
    /\ last.reader = "Gamma"
    /\ last.path = FilePath(n_data)
    /\ last.par_arg # NoArg
    /\ IsFile(fs, last.par_arg)
    /\ CompletePar(Content(fs, last.par_arg))
    /\ {n_data, n_phi, n_theta} \subseteq DOMAIN fs
    /\ DOMAIN fs \cap {n_phi2, n_theta2} = {}
    /\ Len(fs[n_data].data) >= 1
    /\ Len(fs[n_data].data)
          = Declared(Content(fs, last.par_arg), "nlines")
            * Declared(Content(fs, last.par_arg), "width")
    /\ Len(fs[n_phi].data) = Len(fs[n_data].data)
    /\ Len(fs[n_theta].data) = Len(fs[n_data].data)

\* C18: with an explicit valid par_file Gamma.validate returns true and
\* Gamma.read succeeds, whatever the files ending in 'par' in the
\* directory of the data file hold.
C18_ExplicitParFileDecides ==
    ExplicitParCall
        => /\ last.op = "validate" => last.res = Ok(PyBool(TRUE))
           /\ last.op = "read" => last.res.ok

\* The candidates of the discovery for a path that hold all six required
\* keys.
Qualifying(f, path) ==
    {p \in ParCandidates(f, path) : parseParameterFile(f, p).ok}

\* Every entry ending in 'par' in the directory of the path is a file.
CandidatesAreFiles(f, path) ==
    \A p \in ParCandidates(f, path) : IsFile(f, p)

\* The last call was a Gamma call that left the parameter file to the
\* discovery, in a directory whose entries ending in 'par' are files.
DiscoveryCall ==
    /\ last.reader = "Gamma"
    /\ last.op \in {"validate", "read"}
    /\ last.par_arg = NoArg
    /\ CandidatesAreFiles(fs, last.path)

C20_ISCEDeltaKeepsSign ==
    ISCEReadOk
        => /\ container["ISCE"]["dLat"].x = MetaValue(fs, "coordinate2", "delta")
           /\ container["ISCE"]["dLon"].x = MetaValue(fs, "coordinate1", "delta")

\* The entries of the directory that are displacement files (*.unw.geo).
DisplacementFiles(f) ==
    {n \in DOMAIN f : EndsWith(n, <<".", "u", "n", "w", ".", "g", "e", "o">>)}

\* C21: an ISCE read leaves the contents of the displacement file on disk
\* as they were, so that after any sequence of reads the file holds what
\* it held before the first one: the recoding of zero cells reaches only
\* the displacement in the container.
C21_ISCEReadKeepsFile ==
    [][(ncalls' = ncalls + 1 /\ last'.op = "read" /\ last'.reader = "ISCE")
          => \A n \in DisplacementFiles(fs) :
                n \in DOMAIN fs' /\ fs'[n] = fs[n]]_vars
====
